---- MODULE Spec2Model ----
(***************************************************************************)
(* Route scoring, route selection, segment building and preference         *)
(* learning of planner.py, with the preferences file as the shared state.  *)
(*                                                                         *)
(* Numbers: every minute-valued quantity (durations, biases, crowd weight, *)
(* walk limit, learning rate, scores) is an integer number of hundredths   *)
(* (Centi per unit), the resolution paths_to_segs rounds durations to.     *)
(* Crowd levels, max_crowd, runs and indices are plain integers.           *)
(***************************************************************************)
EXTENDS Integers, Sequences, FiniteSets, TLC

VARIABLES
    file,       \* content of PREF_FILE (~/.route_planner/prefs.json)
    call,       \* the last completed call: operation, arguments, result
    lastScore,  \* the most recent score_route call: arguments and value
    csv,        \* content of SUBWAY_CSV and BUS_CSV
    df,         \* the module's cached tables _sub_df and _bus_df
    default_bias, \* the dict object DEFAULT_PREFS["mode_bias"] of the module
    learner     \* each thread's learn_from_choice call in progress

vars == <<file, call, lastScore, csv, df, default_bias, learner>>

crowdVars == <<csv, df>>

\* the module-level state that scoring, selection and loading leave alone
moduleVars == <<csv, df, default_bias, learner>>

----------------------------------------------------------------------------
\* Bounds of the model

MaxRuns == 2        \* learn_from_choice calls per run of Spec
MaxSegs == 2        \* segments per generated route
MaxRoutes == 3      \* candidates per generated candidate list
MaxLegs == 2        \* raw legs per generated itinerary
ConvRuns == 90      \* learn_from_choice calls per run of SpecConverge

----------------------------------------------------------------------------
\* Units and dictionaries

Centi == 100

Modes == <<"SUBWAY", "BUS", "WALK">>

ModeSet == {Modes[i] : i \in 1..Len(Modes)}

EmptyDict == <<>>

\* d.get(k, dflt)
Get(d, k, dflt) == IF k \in DOMAIN d THEN d[k] ELSE dflt

\* {**a, **b}: b's top-level entries replace a's
Merge(a, b) ==
    [k \in (DOMAIN a) \cup (DOMAIN b) |-> IF k \in DOMAIN b THEN b[k] ELSE a[k]]

\* d with d[k] = v assigned
Put(d, k, v) == [x \in (DOMAIN d) \cup {k} |-> IF x = k THEN v ELSE d[x]]

\* an optional prefs argument: None, or a dict
NonePrefs == [given |-> FALSE, val |-> EmptyDict]

SomePrefs(d) == [given |-> TRUE, val |-> d]

----------------------------------------------------------------------------
\* The preferences file

DEFAULT_PREFS ==
    [crowd_weight |-> 2 * Centi,
     max_crowd |-> 4,
     walk_limit_min |-> 15 * Centi,
     mode_bias |-> default_bias,
     runs |-> 0]

AbsentFile == [kind |-> "absent", data |-> EmptyDict]

CorruptFile == [kind |-> "corrupt", data |-> EmptyDict]

ObjectFile(d) == [kind |-> "object", data |-> d]

_migrate_bias(p) ==
    IF "mode_bias" \notin DOMAIN p
    THEN LET pen == Get(p, "mode_penalty", EmptyDict)
             pref == Get(p, "mode_preference", EmptyDict)
         IN  Put(p, "mode_bias",
                 [m \in ModeSet |-> Get(pref, m, 0) - Get(pen, m, 0)])
    ELSE p

load_prefs(f) ==
    LET data == IF f.kind = "object" THEN f.data ELSE EmptyDict
        merged == Merge(DEFAULT_PREFS, data)
    IN  _migrate_bias(merged)

\* a JSON value that is not an object: null, a number n, a boolean (n is 0 or
\* 1), or a string or list of length n
JsonValue(type, n) == [type |-> type, n |-> n]

\* the file holds valid JSON that is not an object
ValueFile(v) == [kind |-> "value", data |-> v]

\* Python truth of a parsed non-object value, as "data or {}" tests it
Truthy(v) == v.type # "null" /\ v.n # 0

\* load_prefs() raises: the merge {**DEFAULT_PREFS, **data} is outside the try
\* block and data is a true value that is not a mapping
load_prefs_raises(f) == f.kind = "value" /\ Truthy(f.data)

save_prefs(prefs) == ObjectFile(prefs)

----------------------------------------------------------------------------
\* score_route

\* mutant: the argument's mode_bias is merged into the stored one key by key
PrefsUsedDeepMerge(prefs, f) ==
    LET stored == load_prefs(f)
        merged == Merge(stored, prefs.val)
    IN  IF ~prefs.given THEN stored
        ELSE IF "mode_bias" \in DOMAIN prefs.val
        THEN Put(merged, "mode_bias",
                 Merge(stored.mode_bias, prefs.val.mode_bias))
        ELSE merged

\* mutant: the stored values win over the argument's
PrefsUsedStoredWins(prefs, f) ==
    IF ~prefs.given THEN load_prefs(f) ELSE Merge(prefs.val, load_prefs(f))

PrefsUsed(prefs, f) ==
    IF ~prefs.given THEN load_prefs(f) ELSE Merge(load_prefs(f), prefs.val)

\* mutant: the crowd level is not offset by one
CrowdCostNoOffset(crowd_w, crowd) == crowd_w * crowd

\* score += crowd_w * (crowd - 1)
CrowdCost(crowd_w, crowd) == crowd_w * (crowd - 1)

\* mutant: a segment at max_crowd is penalised too
CrowdPenaltyAtCap(crowd, p) ==
    IF crowd >= Get(p, "max_crowd", 4) THEN 1000 * Centi ELSE 0

\* if crowd > prefs.get("max_crowd", 4): score += 1000
CrowdPenalty(crowd, p) ==
    IF crowd > Get(p, "max_crowd", 4) THEN 1000 * Centi ELSE 0

\* mutant: a route exactly at the walk limit is penalised too
WalkPenaltyAtLimit(total_walk_min, p) ==
    IF total_walk_min >= Get(p, "walk_limit_min", 15 * Centi)
    THEN 999 * Centi
    ELSE 0

\* if total_walk_min > prefs.get("walk_limit_min", 15): score += 999
WalkPenalty(total_walk_min, p) ==
    IF total_walk_min > Get(p, "walk_limit_min", 15 * Centi)
    THEN 999 * Centi
    ELSE 0

\* the loop over segs[1..n]: the running score and the running walk total
RECURSIVE ScoreLoop(_, _, _)
ScoreLoop(segs, n, p) ==
    IF n = 0 THEN [score |-> 0, total_walk_min |-> 0]
    ELSE LET acc == ScoreLoop(segs, n - 1, p)
             s == segs[n]
             bias == Get(p, "mode_bias", EmptyDict)
             crowd_w == Get(p, "crowd_weight", 0)
         IN  [score |-> acc.score + s.duration_min - Get(bias, s.mode, 0)
                        + CrowdCost(crowd_w, s.crowd)
                        + CrowdPenalty(s.crowd, p),
              total_walk_min |-> IF s.mode = "WALK"
                                 THEN acc.total_walk_min + s.duration_min
                                 ELSE acc.total_walk_min]

score_route(segs, prefs, f) ==
    LET p == PrefsUsed(prefs, f)
        acc == ScoreLoop(segs, Len(segs), p)
    IN  acc.score + WalkPenalty(acc.total_walk_min, p)

----------------------------------------------------------------------------
\* learn_from_choice

UsedModes(segs) == {segs[i].mode : i \in 1..Len(segs)}

\* lr / 2.0 (the learning rates of the model are even numbers of hundredths)
Half(lr) == lr \div 2

\* mutant: an unused mode loses the full lr
NudgeFullPenalty(bias, m, used, lr) ==
    IF m \in used THEN Get(bias, m, 0) + lr ELSE Get(bias, m, 0) - lr

\* mutant: the used modes are pushed down and the others up
NudgeReversed(bias, m, used, lr) ==
    IF m \in used THEN Get(bias, m, 0) - lr ELSE Get(bias, m, 0) + Half(lr)

Nudge(bias, m, used, lr) ==
    IF m \in used THEN Get(bias, m, 0) + lr ELSE Get(bias, m, 0) - Half(lr)

\* for m in ("SUBWAY", "BUS", "WALK"): bias[m] = ...
NudgeAll(bias, used, lr) ==
    [m \in (DOMAIN bias) \cup ModeSet |->
        IF m \in ModeSet THEN Nudge(bias, m, used, lr) ELSE bias[m]]

Max(a, b) == IF a >= b THEN a ELSE b

Min(a, b) == IF a <= b THEN a ELSE b

\* mutant: no lower bound
ClipUpperOnly(v) == Min(10 * Centi, v)

Clip(v) == Max(-10 * Centi, Min(10 * Centi, v))

\* mutant: only the three modes are clipped
ClipModesOnly(bias) ==
    [m \in DOMAIN bias |-> IF m \in ModeSet THEN Clip(bias[m]) ELSE bias[m]]

\* for m in bias: bias[m] = max(-10.0, min(10.0, bias[m]))
ClipAll(bias) == [m \in DOMAIN bias |-> Clip(bias[m])]

\* the mode_bias of the dict load_prefs() returns is the object
\* DEFAULT_PREFS["mode_bias"] itself: the merge copies the top level only
SharesDefaultBias(f) ==
    "mode_bias" \notin DOMAIN (IF f.kind = "object" THEN f.data ELSE EmptyDict)

\* mutant: bias = prefs.get("mode_bias", ...) without the copy
dictAlias(shared) == shared

\* bias = dict(...): whether the result is still the object it was built from
dict(shared) == FALSE

\* mutant: runs restarts from the default instead of the loaded value
LearnUpdateRunsFromDefault(prefs, segs, lr) ==
    LET bias0 == Get(prefs, "mode_bias", [m \in ModeSet |-> 0])
        bias == ClipAll(NudgeAll(bias0, UsedModes(segs), lr))
        p1 == Put(prefs, "mode_bias", bias)
    IN  Put(p1, "runs", DEFAULT_PREFS.runs + 1)

\* the body of learn_from_choice after prefs = load_prefs(): the dict it
\* saves and returns
LearnUpdate(prefs, segs, lr) ==
    LET bias0 == Get(prefs, "mode_bias", [m \in ModeSet |-> 0])
        bias == ClipAll(NudgeAll(bias0, UsedModes(segs), lr))
        p1 == Put(prefs, "mode_bias", bias)
    IN  Put(p1, "runs", Get(prefs, "runs", 0) + 1)

learn_from_choice(segs, lr, f) == LearnUpdate(load_prefs(f), segs, lr)

----------------------------------------------------------------------------
\* choose_best_route

\* scored = [(score_route(r, prefs=prefs), i + 1, r) for i, r in enumerate(routes)]
ScoredList(routes, prefs, f) ==
    [i \in 1..Len(routes) |->
        [score |-> score_route(routes[i], prefs, f), idx |-> i, route |-> routes[i]]]

\* mutant: x goes before the entries of equal score
InsertBeforeEqual(sorted, x) ==
    LET k == Cardinality({j \in 1..Len(sorted) : sorted[j].score < x.score})
    IN  SubSeq(sorted, 1, k) \o <<x>> \o SubSeq(sorted, k + 1, Len(sorted))

\* x put into a list sorted by score, after the entries of equal score
InsertSorted(sorted, x) ==
    LET k == Cardinality({j \in 1..Len(sorted) : sorted[j].score <= x.score})
    IN  SubSeq(sorted, 1, k) \o <<x>> \o SubSeq(sorted, k + 1, Len(sorted))

\* scored.sort(key=lambda x: x[0]) on scored[1..n]: ascending and stable
RECURSIVE SortByScore(_, _)
SortByScore(scored, n) ==
    IF n = 0 THEN <<>> ELSE InsertSorted(SortByScore(scored, n - 1), scored[n])

\* mutant: the empty list answers index 0
EmptyChoiceZero == [idx |-> 0, route |-> <<>>, reads |-> 0]

\* if not routes: return -1, []
EmptyChoice == [idx |-> -1, route |-> <<>>, reads |-> 0]

\* reads counts the load_prefs calls made: one per score_route call
choose_best_route(routes, prefs, f) ==
    IF routes = <<>> THEN EmptyChoice
    ELSE LET scored == SortByScore(ScoredList(routes, prefs, f), Len(routes))
         IN  [idx |-> scored[1].idx, route |-> scored[1].route,
              reads |-> Len(routes)]

----------------------------------------------------------------------------
\* Crowd tables: subway_crowd_level, bus_crowd_level

\* a CSV file: absent, present but not readable as a table, or a table (a set
\* of rows)
AbsentCsv == [kind |-> "absent", rows |-> {}]

UnparsableCsv == [kind |-> "unparsable", rows |-> {}]

TableCsv(rows) == [kind |-> "table", rows |-> rows]

\* _sub_df / _bus_df = None
NoFrame == [loaded |-> FALSE, rows |-> {}]

Frame(rows) == [loaded |-> TRUE, rows |-> rows]

NoCsv == [sub |-> AbsentCsv, bus |-> AbsentCsv]

NoFrames == [sub |-> NoFrame, bus |-> NoFrame]

\* the outcome of a call that loads a table: it raised, or returned frame;
\* cache is the module-level table afterwards
LoadResult(raised, frame, cache) ==
    [raised |-> raised, frame |-> frame, cache |-> cache]

\* _load_sub_df(): raises when the file is absent or pd.read_csv fails
_load_sub_df(cache, f) ==
    IF ~cache.loaded
    THEN IF f.kind = "table"
         THEN LoadResult(FALSE, Frame(f.rows), Frame(f.rows))
         ELSE LoadResult(TRUE, NoFrame, cache)
    ELSE LoadResult(FALSE, cache, cache)

\* _load_bus_df(): returns None when the file is absent, raises when
\* pd.read_csv fails
_load_bus_df(cache, f) ==
    IF ~cache.loaded /\ f.kind # "absent"
    THEN IF f.kind = "table"
         THEN LoadResult(FALSE, Frame(f.rows), Frame(f.rows))
         ELSE LoadResult(TRUE, NoFrame, cache)
    ELSE LoadResult(FALSE, cache, cache)

DAY_TYPE == <<1, 1, 1, 1, 1, 2, 3>>

\* DAY_TYPE[now.weekday()] (weekday 0 is Monday)
DayType(now) == DAY_TYPE[now.weekday + 1]

\* the half-hour bucket "%H%M" of now, written as the number HHMM
HalfHour(now) == now.hour * 100 + (IF now.minute < 30 THEN 0 ELSE 30)

RECURSIVE SumOf(_, _)
\* the sum of field k over a set of rows
SumOf(rows, k) ==
    IF rows = {} THEN 0
    ELSE LET r == CHOOSE r \in rows : TRUE
         IN  r[k] + SumOf(rows \ {r}, k)

\* mean < t for the mean of field k over a non-empty set of rows
MeanBelow(rows, k, t) == SumOf(rows, k) < t * Cardinality(rows)

\* pct_to_level of the mean of CONGEST_PCT over rows
pct_to_level(rows) ==
    IF MeanBelow(rows, "CONGEST_PCT", 70) THEN 1
    ELSE IF MeanBelow(rows, "CONGEST_PCT", 100) THEN 2
    ELSE IF MeanBelow(rows, "CONGEST_PCT", 150) THEN 3
    ELSE 4

\* the cars random.choice / random.randint can draw for a level
BestCars(lvl) ==
    IF lvl >= 3 THEN {1, 10} ELSE IF lvl = 2 THEN {2, 9} ELSE 1..10

\* subway_crowd_level(station, now) without the draw of the car: the whole
\* lookup is inside the try block
subway_crowd_level(station, now, cache, f) ==
    LET ld == _load_sub_df(cache, f)
        hit == {r \in ld.frame.rows :
                   /\ r.DAY_CODE = DayType(now)
                   /\ r.STATION_NM = station
                   /\ r.HHMM = HalfHour(now)}
    IN  [raised |-> FALSE,
         lvl |-> IF ld.raised \/ hit = {} THEN 2 ELSE pct_to_level(hit),
         cache |-> ld.cache]

\* int(route_id) for the route ids of the model; other strings raise
IntOf == [s \in {"100100071", "7"} |-> IF s = "7" THEN 7 ELSE 100100071]

\* the level of a mean boarding count
BoardLevel(rows) ==
    IF MeanBelow(rows, "BOARD_NUM", 10) THEN 1
    ELSE IF MeanBelow(rows, "BOARD_NUM", 25) THEN 2
    ELSE IF MeanBelow(rows, "BOARD_NUM", 40) THEN 3
    ELSE 4

\* bus_crowd_level(route_id, now): the load is outside the try block
bus_crowd_level(route_id, now, cache, f) ==
    LET ld == _load_bus_df(cache, f)
        hit == {r \in ld.frame.rows :
                   r.ROUTE_ID = IntOf[route_id] /\ r.HH = now.hour}
    IN  IF ld.raised THEN [raised |-> TRUE, cache |-> ld.cache]
        ELSE [raised |-> FALSE,
              lvl |-> IF ~ld.frame.loaded THEN 2
                      ELSE IF route_id \notin DOMAIN IntOf THEN 2
                      ELSE IF hit = {} THEN 2
                      ELSE BoardLevel(hit),
              cache |-> ld.cache]

----------------------------------------------------------------------------
\* paths_to_segs

AVG_WALK_SPEED_X10 == 13

\* round(a / b, 0) for a >= 0, b > 0
RoundDiv(a, b) == (2 * a + b) \div (2 * b)

\* round(dist / AVG_WALK_SPEED / 60, 2), in hundredths of a minute
WalkDuration(dist) == RoundDiv(dist * 10 * Centi, AVG_WALK_SPEED_X10 * 60)

\* what subway_crowd_level can return: a level and a car drawn for it
SubwayOutcomes ==
    {[crowd |-> l, best |-> b] : l \in {3, 4}, b \in {1, 10}}
    \cup {[crowd |-> 2, best |-> b] : b \in {2, 9}}
    \cup {[crowd |-> 1, best |-> b] : b \in 1..10}

\* what bus_crowd_level can return (best_car None is written 0)
BusOutcomes == {[crowd |-> l, best |-> 0] : l \in 1..4}

WalkOutcome == [crowd |-> 1, best |-> 0]

HasType(sp, tp) == "trafficType" \in DOMAIN sp /\ sp.trafficType = tp

LegMode(sp) ==
    IF HasType(sp, 1) THEN "SUBWAY"
    ELSE IF HasType(sp, 2) THEN "BUS"
    ELSE "WALK"

\* the crowd lookups a leg can see
LegOutcomes(sp) ==
    IF HasType(sp, 1) THEN SubwayOutcomes
    ELSE IF HasType(sp, 2) THEN BusOutcomes
    ELSE {WalkOutcome}

\* lane0.get("laneName") or lane0.get("name") or lane0.get("subwayName") or ""
SubwayName(sp) ==
    LET lane0 == Get(sp, "lane", <<EmptyDict>>)[1]
    IN  IF Get(lane0, "laneName", "") # "" THEN lane0.laneName
        ELSE IF Get(lane0, "name", "") # "" THEN lane0.name
        ELSE Get(lane0, "subwayName", "")

\* the segment built from leg sp when its crowd lookup returned o
LegSeg(sp, o) ==
    LET mode == LegMode(sp)
        dist == IF mode = "BUS" THEN sp.distance ELSE Get(sp, "distance", 0)
        dur == IF mode = "SUBWAY" THEN Get(sp, "sectionTime", 0) * Centi
               ELSE IF mode = "BUS" THEN sp.sectionTime * Centi
               ELSE WalkDuration(dist)
        name == IF mode = "SUBWAY" THEN SubwayName(sp)
                ELSE IF mode = "BUS" THEN sp.lane[1].busNo
                ELSE "walk"
    IN  [mode |-> mode, name |-> name, distance_m |-> dist,
         duration_min |-> dur, crowd |-> o.crowd, best_car |-> o.best,
         poly |-> Get(Get(sp, "passStopList", EmptyDict), "stations", <<>>)]

\* if mode not in allowed: continue
Skipped(mode) == mode \notin {"SUBWAY", "BUS", "WALK"}

\* the loop over paths[1..n]; env[i] is what the crowd lookup of leg i returned
RECURSIVE SegsLoop(_, _, _)
SegsLoop(paths, env, n) ==
    IF n = 0 THEN <<>>
    ELSE LET segs == SegsLoop(paths, env, n - 1)
         IN  IF Skipped(LegMode(paths[n])) THEN segs
             ELSE Append(segs, LegSeg(paths[n], env[n]))

paths_to_segs(paths, env) == SegsLoop(paths, env, Len(paths))

----------------------------------------------------------------------------
\* Inputs of the model

Seg(mode, duration_min, crowd) ==
    [mode |-> mode, duration_min |-> duration_min, crowd |-> crowd]

\* the route of the worked example: SUBWAY 10 min crowd 2, WALK 5 min crowd 1,
\* BUS 8 min crowd 3
ExampleRoute ==
    <<Seg("SUBWAY", 10 * Centi, 2), Seg("WALK", 5 * Centi, 1),
      Seg("BUS", 8 * Centi, 3)>>

ProbeRoutes ==
    {ExampleRoute,
     <<Seg("SUBWAY", 10 * Centi, 2)>>,
     <<Seg("WALK", 16 * Centi, 1)>>,
     <<Seg("BUS", 8 * Centi, 4), Seg("WALK", 5 * Centi, 1)>>}

ZeroBias == [SUBWAY |-> 0, BUS |-> 0, WALK |-> 0]

\* the prefs of the worked example (every key score_route reads)
ExamplePrefs(max_crowd) ==
    [crowd_weight |-> 2 * Centi, max_crowd |-> max_crowd,
     walk_limit_min |-> 15 * Centi, mode_bias |-> ZeroBias]

ProbePrefs ==
    {NonePrefs,
     SomePrefs(ExamplePrefs(4)),
     SomePrefs([crowd_weight |-> 3 * Centi]),
     SomePrefs([mode_bias |-> [SUBWAY |-> 2 * Centi]])}

\* learning rates: 0.5 (the default and the UI's value) and 1.0; 3.0 as well
\* where convergence is checked
LearnRates == {Centi \div 2, Centi}

ConvergeRates == LearnRates \cup {3 * Centi}

\* chosen routes where convergence is checked: the probe routes, a second
\* SUBWAY-only route, a BUS-only route and the empty route
ConvergeRoutes ==
    ProbeRoutes
    \cup {<<Seg("SUBWAY", 5 * Centi, 1), Seg("SUBWAY", 16 * Centi, 3)>>,
          <<Seg("BUS", 8 * Centi, 3)>>,
          <<>>}

\* preference files a run starts from: none, an unreadable one, one whose
\* mode_bias is partial, out of range and has a foreign key, one near the
\* clamp bounds
InitFiles ==
    {AbsentFile,
     CorruptFile,
     ObjectFile([mode_bias |->
                    [SUBWAY |-> 12 * Centi, BUS |-> -13 * Centi,
                     TAXI |-> 50 * Centi]]),
     ObjectFile([crowd_weight |-> Centi, max_crowd |-> 2,
                 walk_limit_min |-> 10 * Centi,
                 mode_bias |-> [SUBWAY |-> 10 * Centi - Centi \div 4,
                                BUS |-> Centi \div 4 - 10 * Centi,
                                WALK |-> 0],
                 runs |-> 1])}

\* what the sidebar's save button writes: the widget values
UiPrefs ==
    {ExamplePrefs(4),
     [crowd_weight |-> 0, max_crowd |-> 2, walk_limit_min |-> 0,
      mode_bias |-> [SUBWAY |-> 10 * Centi, BUS |-> -10 * Centi,
                     WALK |-> Centi \div 2]]}

\* every sequence over S of length at most n
SeqsUpTo(S, n) == UNION {[1..k -> S] : k \in 0..n}

\* generated segments: every mode, a short and a long leg, three crowd levels
GenSegs ==
    {Seg(m, d, c) : m \in ModeSet, d \in {5 * Centi, 16 * Centi}, c \in {1, 3, 4}}

GenRoutes == SeqsUpTo(GenSegs, MaxSegs) \cup {ExampleRoute}

\* overrides that supply every key score_route reads
FullPrefs ==
    {[crowd_weight |-> w, max_crowd |-> mc, walk_limit_min |-> wl,
      mode_bias |-> b] :
        w \in {0, 2 * Centi, -Centi},
        mc \in {2, 4},
        wl \in {10 * Centi, 15 * Centi},
        b \in {ZeroBias,
               [SUBWAY |-> 3 * Centi, BUS |-> -Centi, WALK |-> Centi \div 2]}}

GenPrefs ==
    {NonePrefs} \cup {SomePrefs(d) : d \in FullPrefs}
    \cup {SomePrefs([crowd_weight |-> 3 * Centi]),
          SomePrefs([mode_bias |-> [SUBWAY |-> 2 * Centi]])}

\* the files score_route is checked against: none, and a full one
ScoreFiles == {f \in InitFiles : f.kind = "absent" \/ "runs" \in DOMAIN f.data}

\* candidates: two that tie under unbiased prefs, a long walk, a crowded
\* bus with a walk, and the worked example
SelectPool ==
    {<<Seg("SUBWAY", 10 * Centi, 1)>>,
     <<Seg("BUS", 10 * Centi, 1)>>,
     <<Seg("WALK", 16 * Centi, 1)>>,
     <<Seg("BUS", 5 * Centi, 3), Seg("WALK", 5 * Centi, 1)>>,
     ExampleRoute}

SelectLists == SeqsUpTo(SelectPool, MaxRoutes)

SelectPrefs ==
    {NonePrefs,
     SomePrefs(ExamplePrefs(4)),
     SomePrefs(ExamplePrefs(2)),
     SomePrefs([mode_bias |-> [BUS |-> 2 * Centi]]),
     SomePrefs([crowd_weight |-> 0, walk_limit_min |-> 20 * Centi])}

\* raw legs: subway, bus, walk, an unsupported traffic type, no traffic type
LegPool ==
    {[trafficType |-> 1, lane |-> <<[name |-> "Line 2"]>>, sectionTime |-> 10,
      distance |-> 5000],
     [trafficType |-> 2, lane |-> <<[busNo |-> "472", busID |-> "100100071"]>>,
      sectionTime |-> 8, distance |-> 3000],
     [trafficType |-> 3, distance |-> 390],
     [trafficType |-> 4, sectionTime |-> 20, distance |-> 9000],
     [distance |-> 100]}

LegLists == SeqsUpTo(LegPool, MaxLegs)

\* the crowd lookups an itinerary can see, leg by leg
Envs(paths) ==
    {env \in [1..Len(paths) -> SubwayOutcomes \cup BusOutcomes \cup {WalkOutcome}] :
        \A i \in 1..Len(paths) : env[i] \in LegOutcomes(paths[i])}

----------------------------------------------------------------------------
\* Threads that call learn_from_choice

Threads == {1, 2}

\* a thread outside learn_from_choice
Idle == [pc |-> "idle"]

NoLearners == [t \in Threads |-> Idle]

----------------------------------------------------------------------------
\* The operations as actions

NoCall == [op |-> "none"]

NoScore == [valid |-> FALSE]

\* lastScore after score_route(segs, prefs) returned val: repeat says the call
\* repeats the previous call's arguments after the file has changed, and
\* prevVal is what that previous call returned
Observed(segs, prefs, val) ==
    LET repeat == IF lastScore.valid
                  THEN /\ lastScore.stale
                       /\ lastScore.segs = segs
                       /\ lastScore.prefs = prefs
                  ELSE FALSE
    IN  [valid |-> TRUE, segs |-> segs, prefs |-> prefs, val |-> val,
         stale |-> FALSE, repeat |-> repeat,
         prevVal |-> IF repeat THEN lastScore.val ELSE val]

\* lastScore after the file became f
Stored(f) ==
    IF lastScore.valid /\ f # file
    THEN [lastScore EXCEPT !.stale = TRUE]
    ELSE lastScore

Init ==
    /\ file \in InitFiles
    /\ call = NoCall
    /\ lastScore = NoScore
    /\ csv = NoCsv
    /\ df = NoFrames
    /\ default_bias = [SUBWAY |-> 0, BUS |-> 0, WALK |-> 0]
    /\ learner = NoLearners

\* mutant: the merge is written into the caller's prefs dict
ArgsAfterScoreMerged(segs, prefs, f) ==
    [segs |-> segs,
     prefs |-> IF prefs.given THEN SomePrefs(PrefsUsed(prefs, f)) ELSE prefs]

\* the caller's objects after score_route(segs, prefs=prefs): the merge is
\* bound to the local name prefs and nothing is assigned into segs
ArgsAfterScore(segs, prefs, f) == [segs |-> segs, prefs |-> prefs]

\* the caller's objects after choose_best_route(routes, prefs=prefs): the sort
\* is of the new list scored, and each score_route call leaves its arguments
ArgsAfterChoose(routes, prefs, f) ==
    [routes |-> [i \in 1..Len(routes) |->
                    ArgsAfterScore(routes[i], prefs, f).segs],
     prefs |-> IF routes = <<>> THEN prefs
               ELSE ArgsAfterScore(routes[Len(routes)], prefs, f).prefs]

\* score_route(segs, prefs=prefs) for segs in Rs and prefs in Ps
ScoreRouteOn(Rs, Ps) ==
    \E segs \in Rs, prefs \in Ps :
        LET val == score_route(segs, prefs, file)
        IN  /\ call' = [op |-> "score", segs |-> segs, prefs |-> prefs,
                        val |-> val, reads |-> 1,
                        after |-> ArgsAfterScore(segs, prefs, file)]
            /\ lastScore' = Observed(segs, prefs, val)
            /\ UNCHANGED <<file, moduleVars>>

\* learn_from_choice(segs, lr=lr); bound is the model's cap on the stored
\* runs counter
LearnStep(segs, lr, bound) ==
    LET old == load_prefs(file)
        ret == learn_from_choice(segs, lr, file)
    IN  /\ Get(old, "runs", 0) < bound
        /\ file' = save_prefs(ret)
        /\ call' = [op |-> "learn", segs |-> segs, lr |-> lr,
                    old |-> old, ret |-> ret, reads |-> 1]
        /\ lastScore' = Stored(save_prefs(ret))
        /\ default_bias' = IF dict(SharesDefaultBias(file))
                           THEN Get(ret, "mode_bias", default_bias)
                           ELSE default_bias
        /\ UNCHANGED <<crowdVars, learner>>

\* the sidebar's save button: save_prefs(to_save), runs carried over
SavePrefs ==
    \E w \in UiPrefs :
        LET to_save == Put(w, "runs", Get(load_prefs(file), "runs", 0))
        IN  /\ file' = save_prefs(to_save)
            /\ call' = [op |-> "save", prefs |-> to_save]
            /\ lastScore' = Stored(save_prefs(to_save))
            /\ UNCHANGED moduleVars

\* choose_best_route(routes, prefs=prefs) for routes in Ls and prefs in Ps
ChooseBestOn(Ls, Ps) ==
    \E routes \in Ls, prefs \in Ps :
        LET r == choose_best_route(routes, prefs, file)
        IN  /\ call' = [op |-> "choose", routes |-> routes, prefs |-> prefs,
                        idx |-> r.idx, route |-> r.route, reads |-> r.reads,
                        after |-> ArgsAfterChoose(routes, prefs, file)]
            /\ UNCHANGED <<file, lastScore, moduleVars>>

\* paths_to_segs(paths, prefs=prefs) for paths in Ls and prefs in Ps, under
\* every outcome of the crowd lookups
PathsToSegsOn(Ls, Ps) ==
    \E paths \in Ls, prefs \in Ps :
        \E env \in Envs(paths) :
            /\ call' = [op |-> "segs", paths |-> paths, prefs |-> prefs,
                        ret |-> paths_to_segs(paths, env),
                        reads |-> IF prefs.given THEN 0 ELSE 1]
            /\ UNCHANGED <<file, lastScore, moduleVars>>

ScoreRoute == ScoreRouteOn(ProbeRoutes, ProbePrefs)

Learn == \E segs \in ProbeRoutes, lr \in LearnRates : LearnStep(segs, lr, MaxRuns)

Next == ScoreRoute \/ Learn \/ SavePrefs

Spec == Init /\ [][Next]_vars

\* learn_from_choice called again and again with one set of used modes and
\* one learning rate
InitConverge ==
    /\ file \in InitFiles
    /\ call = NoCall
    /\ lastScore = NoScore
    /\ csv = NoCsv
    /\ df = NoFrames
    /\ default_bias = [SUBWAY |-> 0, BUS |-> 0, WALK |-> 0]
    /\ learner = NoLearners

LearnSame ==
    \E segs \in ConvergeRoutes, lr \in ConvergeRates :
        /\ call.op = "learn" =>
               (UsedModes(segs) = UsedModes(call.segs) /\ lr = call.lr)
        /\ LearnStep(segs, lr, ConvRuns)

NextConverge == LearnSame

SpecConverge == InitConverge /\ [][NextConverge]_vars /\ WF_vars(LearnSame)

\* one score_route call, over the generated routes and prefs arguments and
\* the files it may find
InitScore ==
    /\ file \in ScoreFiles
    /\ call = NoCall
    /\ lastScore = NoScore
    /\ csv = NoCsv
    /\ df = NoFrames
    /\ default_bias = [SUBWAY |-> 0, BUS |-> 0, WALK |-> 0]
    /\ learner = NoLearners

ScoreGen == call = NoCall /\ ScoreRouteOn(GenRoutes, GenPrefs)

NextScore == ScoreGen

SpecScore == InitScore /\ [][NextScore]_vars

\* one choose_best_route call, over the candidate lists and the files
InitSelect ==
    /\ file \in InitFiles
    /\ call = NoCall
    /\ lastScore = NoScore
    /\ csv = NoCsv
    /\ df = NoFrames
    /\ default_bias = [SUBWAY |-> 0, BUS |-> 0, WALK |-> 0]
    /\ learner = NoLearners

ChooseGen == call = NoCall /\ ChooseBestOn(SelectLists, SelectPrefs)

NextSelect == ChooseGen

SpecSelect == InitSelect /\ [][NextSelect]_vars

\* one paths_to_segs call, over the itineraries
InitSegs ==
    /\ file \in InitFiles
    /\ call = NoCall
    /\ lastScore = NoScore
    /\ csv = NoCsv
    /\ df = NoFrames
    /\ default_bias = [SUBWAY |-> 0, BUS |-> 0, WALK |-> 0]
    /\ learner = NoLearners

SegsGen == call = NoCall /\ PathsToSegsOn(LegLists, {NonePrefs, SomePrefs(ExamplePrefs(4))})

NextSegs == SegsGen

SpecSegs == InitSegs /\ [][NextSegs]_vars

----------------------------------------------------------------------------
\* The crowd lookups on every state of the two CSV files

SubRow(day, station, hhmm, pct) ==
    [DAY_CODE |-> day, STATION_NM |-> station, HHMM |-> hhmm,
     CONGEST_PCT |-> pct]

BusRow(route, hh, n) == [ROUTE_ID |-> route, HH |-> hh, BOARD_NUM |-> n]

SubRows ==
    {SubRow(1, "Line2", 800, 60), SubRow(1, "Line2", 800, 100),
     SubRow(2, "Line2", 830, 160), SubRow(3, "Line9", 2330, 120)}

BusRows ==
    {BusRow(7, 8, 5), BusRow(7, 8, 9), BusRow(100100071, 8, 45),
     BusRow(7, 23, 30)}

CsvStates ==
    {[sub |-> a, bus |-> b] :
        a \in {AbsentCsv, UnparsableCsv, TableCsv(SubRows)},
        b \in {AbsentCsv, UnparsableCsv, TableCsv(BusRows)}}

When(weekday, hour, minute) ==
    [weekday |-> weekday, hour |-> hour, minute |-> minute]

CrowdNows == {When(0, 8, 10), When(5, 8, 45), When(6, 23, 30), When(1, 3, 0)}

CrowdStations == {"Line2", "Line9"}

CrowdRouteIds == {"7", "100100071", "", "N62"}

InitCrowd ==
    /\ file = AbsentFile
    /\ call = NoCall
    /\ lastScore = NoScore
    /\ csv \in CsvStates
    /\ df = NoFrames
    /\ default_bias = [SUBWAY |-> 0, BUS |-> 0, WALK |-> 0]
    /\ learner = NoLearners

\* one subway_crowd_level(station, now) call
SubwayCrowd ==
    \E station \in CrowdStations, now \in CrowdNows :
        LET r == subway_crowd_level(station, now, df.sub, csv.sub)
        IN  \E best \in BestCars(r.lvl) :
                /\ call' = [op |-> "subway", key |-> station, now |-> now,
                            raised |-> r.raised, lvl |-> r.lvl, best |-> best]
                /\ df' = [df EXCEPT !.sub = r.cache]
                /\ UNCHANGED <<file, lastScore, csv, default_bias, learner>>

\* one bus_crowd_level(route_id, now) call
BusCrowd ==
    \E route_id \in CrowdRouteIds, now \in CrowdNows :
        LET r == bus_crowd_level(route_id, now, df.bus, csv.bus)
        IN  /\ call' = IF r.raised
                       THEN [op |-> "bus", key |-> route_id, now |-> now,
                             raised |-> TRUE]
                       ELSE [op |-> "bus", key |-> route_id, now |-> now,
                             raised |-> FALSE, lvl |-> r.lvl]
            /\ df' = [df EXCEPT !.bus = r.cache]
            /\ UNCHANGED <<file, lastScore, csv, default_bias, learner>>

NextCrowd == SubwayCrowd \/ BusCrowd

SpecCrowd == InitCrowd /\ [][NextCrowd]_vars

----------------------------------------------------------------------------
\* load_prefs on every kind of file content

JsonValues ==
    {JsonValue("null", 0), JsonValue("number", 0), JsonValue("number", 5),
     JsonValue("boolean", 0), JsonValue("boolean", 1), JsonValue("string", 0),
     JsonValue("string", 3), JsonValue("list", 0), JsonValue("list", 1)}

LoadFiles == InitFiles \cup {ValueFile(v) : v \in JsonValues}

InitLoad ==
    /\ file \in LoadFiles
    /\ call = NoCall
    /\ lastScore = NoScore
    /\ csv = NoCsv
    /\ df = NoFrames
    /\ default_bias = [SUBWAY |-> 0, BUS |-> 0, WALK |-> 0]
    /\ learner = NoLearners

\* one load_prefs() call
LoadPrefs ==
    /\ call' = IF load_prefs_raises(file)
               THEN [op |-> "load", raised |-> TRUE]
               ELSE [op |-> "load", raised |-> FALSE, ret |-> load_prefs(file)]
    /\ UNCHANGED <<file, lastScore, moduleVars>>

\* learn_from_choice(segs, lr=lr): the exception of its load_prefs() call
\* leaves it before anything is saved
LearnOrRaise ==
    \E segs \in ProbeRoutes, lr \in LearnRates :
        IF load_prefs_raises(file)
        THEN /\ call' = [op |-> "learn", segs |-> segs, lr |-> lr,
                         raised |-> TRUE]
             /\ UNCHANGED <<file, lastScore, moduleVars>>
        ELSE LearnStep(segs, lr, MaxRuns)

NextLoad == LoadPrefs \/ LearnOrRaise

SpecLoad == InitLoad /\ [][NextLoad]_vars

----------------------------------------------------------------------------
\* A session: scoring, selection, segment building and learning in any order

\* the routes a session scores and learns from
SessionRoutes == {ExampleRoute, <<Seg("WALK", 16 * Centi, 1)>>}

\* the overrides a session passes: none, the widgets' full set, a partial one
SessionPrefs ==
    {NonePrefs, SomePrefs(ExamplePrefs(2)),
     SomePrefs([mode_bias |-> [SUBWAY |-> 2 * Centi]])}

SessionLists ==
    {<<>>,
     <<ExampleRoute, <<Seg("SUBWAY", 10 * Centi, 2)>>>>,
     <<<<Seg("WALK", 16 * Centi, 1)>>,
       <<Seg("BUS", 8 * Centi, 4), Seg("WALK", 5 * Centi, 1)>>,
       ExampleRoute>>}

SessionPaths == SeqsUpTo(LegPool, 1)

InitSession ==
    /\ file \in InitFiles
    /\ call = NoCall
    /\ lastScore = NoScore
    /\ csv = NoCsv
    /\ df = NoFrames
    /\ default_bias = [SUBWAY |-> 0, BUS |-> 0, WALK |-> 0]
    /\ learner = NoLearners

ScoreSession == ScoreRouteOn(SessionRoutes, SessionPrefs)

ChooseBest == ChooseBestOn(SessionLists, SessionPrefs)

PathsToSegs == PathsToSegsOn(SessionPaths, {NonePrefs})

\* the UI's learn_from_choice(segs, lr=0.5)
LearnSession ==
    \E segs \in SessionRoutes : LearnStep(segs, Centi \div 2, MaxRuns)

NextSession == ScoreSession \/ ChooseBest \/ PathsToSegs \/ LearnSession

SpecSession == InitSession /\ [][NextSession]_vars

----------------------------------------------------------------------------
\* Two threads in learn_from_choice with nothing serializing them: the load
\* and the save of a call are separate steps

InitRace ==
    /\ file \in InitFiles
    /\ call = NoCall
    /\ lastScore = NoScore
    /\ csv = NoCsv
    /\ df = NoFrames
    /\ default_bias = [SUBWAY |-> 0, BUS |-> 0, WALK |-> 0]
    /\ learner = NoLearners

\* mutant: the update is applied to the preferences stored at the save
SaveBaseFresh(loaded, f) == load_prefs(f)

\* the preferences the update is applied to: the dict read at entry
SaveBase(loaded, f) == loaded

\* thread t enters learn_from_choice(segs, lr=lr): prefs = load_prefs()
LearnLoad(t) ==
    \E segs \in ProbeRoutes, lr \in LearnRates :
        /\ learner[t].pc = "idle"
        /\ learner' = [learner EXCEPT ![t] =
                          [pc |-> "loaded", segs |-> segs, lr |-> lr,
                           prefs |-> load_prefs(file),
                           shared |-> SharesDefaultBias(file)]]
        /\ UNCHANGED <<file, call, lastScore, crowdVars, default_bias>>

\* thread t finishes the call: the update, save_prefs(prefs), return prefs
LearnSave(t) ==
    /\ learner[t].pc = "loaded"
    /\ LET l == learner[t]
           ret == LearnUpdate(SaveBase(l.prefs, file), l.segs, l.lr)
       IN  /\ file' = save_prefs(ret)
           /\ call' = [op |-> "learn", segs |-> l.segs, lr |-> l.lr,
                       old |-> l.prefs, ret |-> ret, reads |-> 1]
           /\ lastScore' = Stored(save_prefs(ret))
           /\ default_bias' = IF dict(l.shared)
                              THEN Get(ret, "mode_bias", default_bias)
                              ELSE default_bias
           /\ learner' = [learner EXCEPT ![t] =
                             [pc |-> "done", segs |-> l.segs, lr |-> l.lr,
                              prefs |-> l.prefs, ret |-> ret]]
           /\ UNCHANGED crowdVars

NextRace == \E t \in Threads : LearnLoad(t) \/ LearnSave(t)

SpecRace == InitRace /\ [][NextRace]_vars

----------------------------------------------------------------------------
\* Learning and saving alone: the files the program can come to store

NextLearn == Learn \/ SavePrefs

SpecLearn == Init /\ [][NextLearn]_vars

----------------------------------------------------------------------------
\* Claims. A definition marked "mutant" above is a seeded fault of the
\* operator that follows it; the claim that names it fails under it.

\* every value of a mode_bias dict lies in [-10, 10]
BiasInRange(b) == \A m \in DOMAIN b : -10 * Centi <= b[m] /\ b[m] <= 10 * Centi

\* v brought into [-10, 10]
Clamped(v) ==
    IF v > 10 * Centi THEN 10 * Centi
    ELSE IF v < -10 * Centi THEN -10 * Centi ELSE v

OldBias(m) == Get(Get(call.old, "mode_bias", EmptyDict), m, 0)

----------------------------------------------------------------------------
\* C3: after a learn_from_choice call, whatever the stored mode_bias was
\* before it, every value of the returned mode_bias and of the mode_bias now
\* in the file lies in [-10, 10].
C3_BiasClamped ==
    call.op = "learn" =>
        /\ BiasInRange(call.ret.mode_bias)
        /\ file.kind = "object"
        /\ BiasInRange(file.data.mode_bias)

\* a learn call that found stored values above 10, below -10 and a foreign key
C3_Witness ==
    /\ call.op = "learn"
    /\ OldBias("SUBWAY") > 10 * Centi
    /\ OldBias("BUS") < -10 * Centi
    /\ "TAXI" \in DOMAIN call.ret.mode_bias

----------------------------------------------------------------------------
\* C4 as stated: after a learn_from_choice call whose segments use only
\* SUBWAY, bias[SUBWAY] is exactly lr larger than before and bias[BUS],
\* bias[WALK] are each exactly lr/2 smaller than before.
C4_Original ==
    (call.op = "learn" /\ UsedModes(call.segs) = {"SUBWAY"}) =>
        /\ call.ret.mode_bias["SUBWAY"] = OldBias("SUBWAY") + call.lr
        /\ call.ret.mode_bias["BUS"] = OldBias("BUS") - call.lr \div 2
        /\ call.ret.mode_bias["WALK"] = OldBias("WALK") - call.lr \div 2

\* C4 amended: after such a call bias[SUBWAY] is the old value plus lr and
\* bias[BUS], bias[WALK] are the old values minus lr/2, each brought into
\* [-10, 10] (a mode with no stored entry counts as 0.0); the file holds the
\* same values.
C4_SubwayOnlyStep ==
    (call.op = "learn" /\ UsedModes(call.segs) = {"SUBWAY"}) =>
        /\ call.ret.mode_bias["SUBWAY"] = Clamped(OldBias("SUBWAY") + call.lr)
        /\ call.ret.mode_bias["BUS"] = Clamped(OldBias("BUS") - call.lr \div 2)
        /\ call.ret.mode_bias["WALK"] = Clamped(OldBias("WALK") - call.lr \div 2)
        /\ file.data.mode_bias = call.ret.mode_bias

\* a SUBWAY-only learn call well inside the range: the steps are exactly
\* +lr and -lr/2
C4_Witness ==
    /\ call.op = "learn"
    /\ UsedModes(call.segs) = {"SUBWAY"}
    /\ call.ret.mode_bias["SUBWAY"] = OldBias("SUBWAY") + call.lr
    /\ call.ret.mode_bias["BUS"] = OldBias("BUS") - call.lr \div 2
    /\ call.ret.mode_bias["WALK"] = OldBias("WALK") - call.lr \div 2
    /\ OldBias("SUBWAY") # 0

----------------------------------------------------------------------------
\* a prefs argument that supplies every key score_route reads
FullOverride(prefs) ==
    /\ prefs.given
    /\ {"crowd_weight", "max_crowd", "walk_limit_min", "mode_bias"}
           \subseteq DOMAIN prefs.val

\* C9 as stated: a score_route call with the segments and the prefs argument
\* of the previous call returns the value that call returned, whatever
\* learn_from_choice and save_prefs did to the file in between.
C9_Original == lastScore.valid /\ lastScore.repeat => lastScore.val = lastScore.prevVal

\* C9 amended: that holds when the prefs argument supplies all of
\* crowd_weight, max_crowd, walk_limit_min and mode_bias; with prefs omitted
\* or partial the value also depends on the stored preferences at call time.
C9_FullOverrideDeterministic ==
    (lastScore.valid /\ lastScore.repeat /\ FullOverride(lastScore.prefs)) =>
        lastScore.val = lastScore.prevVal

\* a full-override call repeated after a learn_from_choice changed the file
C9_Witness ==
    /\ lastScore.valid
    /\ lastScore.repeat
    /\ FullOverride(lastScore.prefs)
    /\ call.op = "score"
    /\ Get(load_prefs(file), "runs", 0) = MaxRuns

----------------------------------------------------------------------------
\* The sum of t[i] over i in 1..n
RECURSIVE SumTo(_, _)
SumTo(t, n) == IF n = 0 THEN 0 ELSE t[n] + SumTo(t, n - 1)

\* summed duration of the WALK segments
WalkTotal(segs) ==
    SumTo([i \in 1..Len(segs) |->
              IF segs[i].mode = "WALK" THEN segs[i].duration_min ELSE 0],
          Len(segs))

\* a prefs argument with every key score_route reads and all three biases
CompletePrefs(prefs) ==
    FullOverride(prefs) /\ ModeSet \subseteq DOMAIN prefs.val.mode_bias

\* C2: with a full prefs argument score_route returns the sum over the
\* segments of duration - mode_bias[mode] + crowd_weight * (crowd - 1), plus
\* 1000 for each segment with crowd > max_crowd, plus 999 once if the summed
\* WALK duration exceeds walk_limit_min; the worked example scores 29 with
\* max_crowd 4 and 1029 with max_crowd 2.
C2_ScoreFormula ==
    (call.op = "score" /\ CompletePrefs(call.prefs)) =>
        LET p == call.prefs.val
            segs == call.segs
            term == [i \in 1..Len(segs) |->
                        segs[i].duration_min - p.mode_bias[segs[i].mode]
                        + p.crowd_weight * (segs[i].crowd - 1)
                        + (IF segs[i].crowd > p.max_crowd
                           THEN 1000 * Centi ELSE 0)]
        IN  /\ call.val = SumTo(term, Len(segs))
                          + (IF WalkTotal(segs) > p.walk_limit_min
                             THEN 999 * Centi ELSE 0)
            /\ (segs = ExampleRoute /\ p = ExamplePrefs(4))
                   => call.val = 29 * Centi
            /\ (segs = ExampleRoute /\ p = ExamplePrefs(2))
                   => call.val = 1029 * Centi

\* the worked example scored with max_crowd 2
C2_Witness ==
    /\ call.op = "score"
    /\ call.segs = ExampleRoute
    /\ call.prefs = SomePrefs(ExamplePrefs(2))
    /\ call.val = 1029 * Centi

----------------------------------------------------------------------------
\* segs with segment i's crowd replaced by c
WithCrowd(segs, i, c) == [segs EXCEPT ![i].crowd = c]

\* C7: with crowd_weight >= 0, a route with a segment whose crowd exceeds
\* max_crowd scores at least 1000 more than the same route with that one
\* segment's crowd replaced by max_crowd.
C7_CrowdCapPenalty ==
    call.op = "score" =>
        LET p == PrefsUsed(call.prefs, file)
        IN  p.crowd_weight >= 0 =>
                \A i \in 1..Len(call.segs) :
                    call.segs[i].crowd > p.max_crowd =>
                        call.val >= 1000 * Centi
                            + score_route(WithCrowd(call.segs, i, p.max_crowd),
                                          call.prefs, file)

\* a scored route with a segment over max_crowd, under a positive crowd_weight
C7_Witness ==
    /\ call.op = "score"
    /\ PrefsUsed(call.prefs, file).crowd_weight > 0
    /\ \E i \in 1..Len(call.segs) :
           call.segs[i].crowd > PrefsUsed(call.prefs, file).max_crowd

----------------------------------------------------------------------------
\* the prefs argument with walk_limit_min replaced by wl
WithWalkLimit(prefs, wl) ==
    SomePrefs(Put(IF prefs.given THEN prefs.val ELSE EmptyDict,
                  "walk_limit_min", wl))

\* the routes that differ from segs only in the durations of WALK segments
WalkVariants(segs) ==
    {[i \in 1..Len(segs) |->
         IF segs[i].mode = "WALK"
         THEN [segs[i] EXCEPT !.duration_min = d[i]]
         ELSE segs[i]] :
        d \in [1..Len(segs) -> {0, 5 * Centi, 16 * Centi}]}

\* C8: score_route adds 999 once, exactly when the summed WALK duration is
\* strictly greater than walk_limit_min, however many WALK segments there
\* are (the score exceeds by 999 or by 0 what the route scores with the limit
\* set to its own walking total); and a route over the limit scores at least
\* 999 more than any route that differs only in its WALK durations and is at
\* or under the limit.
C8_WalkPenaltyOnce ==
    call.op = "score" =>
        LET p == PrefsUsed(call.prefs, file)
            segs == call.segs
            free == score_route(segs, WithWalkLimit(call.prefs, WalkTotal(segs)),
                                file)
        IN  /\ call.val - free =
                   (IF WalkTotal(segs) > p.walk_limit_min THEN 999 * Centi ELSE 0)
            /\ WalkTotal(segs) > p.walk_limit_min =>
                   \A r \in WalkVariants(segs) :
                       WalkTotal(r) <= p.walk_limit_min =>
                           call.val >= 999 * Centi
                               + score_route(r, call.prefs, file)

\* a scored route with two WALK segments whose total is over the limit
C8_Witness ==
    /\ call.op = "score"
    /\ Cardinality({i \in 1..Len(call.segs) : call.segs[i].mode = "WALK"}) = 2
    /\ WalkTotal(call.segs) > PrefsUsed(call.prefs, file).walk_limit_min
    /\ call.segs[1].duration_min <= PrefsUsed(call.prefs, file).walk_limit_min

----------------------------------------------------------------------------
\* the score of candidate j of the last choose_best_route call
CandScore(j) == score_route(call.routes[j], call.prefs, file)

\* C1: for a non-empty candidate list choose_best_route returns the 1-based
\* index i and the candidate routes[i] whose score_route value is minimal
\* over all candidates, and i is the lowest index with that score.
C1_SelectsFirstMinimum ==
    (call.op = "choose" /\ call.routes # <<>>) =>
        /\ call.idx \in 1..Len(call.routes)
        /\ call.route = call.routes[call.idx]
        /\ \A j \in 1..Len(call.routes) : CandScore(call.idx) <= CandScore(j)
        /\ \A j \in 1..(call.idx - 1) : CandScore(j) > CandScore(call.idx)

\* a choice among three candidates where the minimum is shared by two
\* different routes and is not the first candidate's score
C1_Witness ==
    /\ call.op = "choose"
    /\ Len(call.routes) = 3
    /\ call.idx = 2
    /\ CandScore(3) = CandScore(2)
    /\ call.routes[3] # call.routes[2]

----------------------------------------------------------------------------
\* C6: choose_best_route on the empty candidate list returns index -1 and
\* the empty sequence, and reads the preferences file not once (no candidate
\* is scored).
C6_EmptyCandidates ==
    (call.op = "choose" /\ call.routes = <<>>) =>
        /\ call.idx = -1
        /\ call.route = <<>>
        /\ call.reads = 0

\* the empty list chosen from with an unreadable preferences file in place
C6_Witness ==
    /\ call.op = "choose"
    /\ call.routes = <<>>
    /\ call.idx = -1
    /\ file.kind = "corrupt"

----------------------------------------------------------------------------
\* the legs of the last paths_to_segs call whose traffic type is supported
\* (1 subway, 2 bus, 3 walk)
Supported(sp) == HasType(sp, 1) \/ HasType(sp, 2) \/ HasType(sp, 3)

\* the modes of the supported legs of paths[1..n], in order
RECURSIVE SupportedModes(_, _)
SupportedModes(paths, n) ==
    IF n = 0 THEN <<>>
    ELSE IF Supported(paths[n])
         THEN Append(SupportedModes(paths, n - 1),
                     IF HasType(paths[n], 1) THEN "SUBWAY"
                     ELSE IF HasType(paths[n], 2) THEN "BUS" ELSE "WALK")
         ELSE SupportedModes(paths, n - 1)

\* C10: paths_to_segs outputs exactly one segment for each leg whose traffic
\* type is subway, bus or walk, in the legs' order, and no segment for a leg
\* with any other or no traffic type.
C10_DropsUnsupportedLegs ==
    call.op = "segs" =>
        [i \in 1..Len(call.ret) |-> call.ret[i].mode]
            = SupportedModes(call.paths, Len(call.paths))

----------------------------------------------------------------------------
\* the stored bias of every mode the last learn_from_choice call used is +10
\* and that of every other mode is -10
AtBounds ==
    /\ call.op = "learn"
    /\ file.kind = "object"
    /\ \A m \in ModeSet :
           file.data.mode_bias[m] =
               (IF m \in UsedModes(call.segs) THEN 10 * Centi ELSE -10 * Centi)

\* C5: under repeated learn_from_choice calls with one set of used modes and
\* one learning rate, the stored bias of every used mode eventually equals
\* +10 and that of every unused mode -10, and they stay there under every
\* further call.
C5_Converges == <>[]AtBounds

\* a call that found the biases at the bounds and left them there
C5_Witness ==
    /\ AtBounds
    /\ UsedModes(call.segs) = {"SUBWAY"}
    /\ OldBias("SUBWAY") = 10 * Centi
    /\ OldBias("BUS") = -10 * Centi
    /\ OldBias("WALK") = -10 * Centi
    /\ call.lr = Centi \div 2

----------------------------------------------------------------------------
\* C11

\* the rows of the subway file that match the key of the last call
SubwayMatches ==
    {r \in csv.sub.rows :
        /\ r.STATION_NM = call.key
        /\ r.DAY_CODE = DAY_TYPE[call.now.weekday + 1]
        /\ r.HHMM = call.now.hour * 100
                    + (IF call.now.minute < 30 THEN 0 ELSE 30)}

\* the rows of the bus file that match the key of the last call
BusMatches ==
    {r \in csv.bus.rows :
        /\ call.key \in DOMAIN IntOf
        /\ r.ROUTE_ID = IntOf[call.key]
        /\ r.HH = call.now.hour}

\* the last call was a lookup that failed: table absent, table unparsable,
\* key not convertible, or no matching observation
LookupFailed ==
    \/ call.op = "subway" /\ (csv.sub.kind # "table" \/ SubwayMatches = {})
    \/ call.op = "bus" /\ (csv.bus.kind # "table" \/ BusMatches = {})

----------------------------------------------------------------------------
\* C12

\* the stored top-level keys of the file, none when it holds no object
StoredKeys == IF file.kind = "object" THEN file.data ELSE EmptyDict

\* C12: load_prefs never raises; it returns the defaults overlaid with the
\* stored top-level keys, and the defaults alone when the file holds no object.
C12_LoadNeverRaises ==
    call.op = "load" =>
        /\ ~call.raised
        /\ \A k \in DOMAIN DEFAULT_PREFS \cup DOMAIN StoredKeys :
               /\ k \in DOMAIN call.ret
               /\ call.ret[k] = IF k \in DOMAIN StoredKeys
                                THEN StoredKeys[k] ELSE DEFAULT_PREFS[k]

----------------------------------------------------------------------------
\* C13

\* the last call returned a preferences value
Returned(op) == call.op = op /\ "ret" \in DOMAIN call

AllModes(prefs) ==
    "mode_bias" \in DOMAIN prefs /\ ModeSet \subseteq DOMAIN prefs.mode_bias

\* C13 as stated: every value load_prefs or learn_from_choice returns has a
\* mode_bias with the keys SUBWAY, BUS and WALK, and the mode_bias of
\* DEFAULT_PREFS keeps its initial value.
C13_Original ==
    /\ Returned("load") => AllModes(call.ret)
    /\ Returned("learn") => AllModes(call.ret)
    /\ default_bias = ZeroBias

\* C13, amended: every value learn_from_choice returns has a mode_bias with
\* the keys SUBWAY, BUS and WALK; a value load_prefs returns has the stored
\* mode_bias unchanged when the file stores one, and the three-key default
\* otherwise; the mode_bias of DEFAULT_PREFS keeps its initial value.
C13_LearnCompletesBias ==
    /\ Returned("learn") => AllModes(call.ret)
    /\ Returned("load") =>
           IF "mode_bias" \in DOMAIN StoredKeys
           THEN call.ret.mode_bias = StoredKeys.mode_bias
           ELSE call.ret.mode_bias = ZeroBias
    /\ default_bias = ZeroBias

\* learn_from_choice has returned from a file whose mode_bias lacked a mode
C13_Witness ==
    /\ Returned("learn")
    /\ ~AllModes(call.old)
    /\ AllModes(call.ret)

----------------------------------------------------------------------------
\* C14

\* C14: a score_route or choose_best_route call leaves the preferences file
\* as it was, and leaves the candidate list, every segment and the prefs
\* argument of the caller as they were passed.
C14_ScoringWritesNothing ==
    [][/\ call'.op = "score" =>
              /\ file' = file
              /\ call'.after = [segs |-> call'.segs, prefs |-> call'.prefs]
       /\ call'.op = "choose" =>
              /\ file' = file
              /\ call'.after = [routes |-> call'.routes, prefs |-> call'.prefs]
      ]_vars

\* choose_best_route has returned for candidates and an override that differs
\* from the stored preferences
C14_Witness ==
    /\ call.op = "choose"
    /\ call.routes # <<>>
    /\ call.prefs.given
    /\ PrefsUsed(call.prefs, file) # load_prefs(file)
    /\ call.prefs.val # PrefsUsed(call.prefs, file)

----------------------------------------------------------------------------
\* C15

\* C15: when the prefs argument of score_route contains mode_bias, the bias
\* applied to a mode is the argument's value for it, or 0 when the argument's
\* mode_bias has no entry for it, whatever the file stores for that mode; a
\* top-level key takes its stored value only when the argument lacks it.
C15_OverrideBiasReplaces ==
    (call.op = "score" /\ call.prefs.given
        /\ "mode_bias" \in DOMAIN call.prefs.val) =>
        LET o == call.prefs.val
            stored == load_prefs(file)
            top(k) == IF k \in DOMAIN o THEN o[k] ELSE stored[k]
            b(m) == IF m \in DOMAIN o.mode_bias THEN o.mode_bias[m] ELSE 0
            segs == call.segs
            term == [i \in 1..Len(segs) |->
                        segs[i].duration_min - b(segs[i].mode)
                        + top("crowd_weight") * (segs[i].crowd - 1)
                        + (IF segs[i].crowd > top("max_crowd")
                           THEN 1000 * Centi ELSE 0)]
        IN  call.val = SumTo(term, Len(segs))
                       + (IF WalkTotal(segs) > top("walk_limit_min")
                          THEN 999 * Centi ELSE 0)

\* a route with a BUS segment scored with an override whose mode_bias names
\* SUBWAY only, while the file stores a BUS bias other than 0 and its own
\* crowd_weight
C15_Witness ==
    /\ call.op = "score"
    /\ call.prefs = SomePrefs([mode_bias |-> [SUBWAY |-> 2 * Centi]])
    /\ \E i \in 1..Len(call.segs) : call.segs[i].mode = "BUS"
    /\ load_prefs(file).mode_bias.BUS # 0
    /\ load_prefs(file).crowd_weight = Centi

----------------------------------------------------------------------------
\* C16

\* both calls have returned, and both had loaded before either saved: they
\* loaded the same runs counter, which every save raises
BothLoadedFirst ==
    /\ \A t \in Threads : learner[t].pc = "done"
    /\ learner[1].prefs = learner[2].prefs

\* the file as one call alone would have left it
OneUpdate(t) ==
    save_prefs(LearnUpdate(learner[t].prefs, learner[t].segs, learner[t].lr))

\* C16: after two unserialized learn_from_choice calls that both loaded before
\* either saved, the file holds the update of one call only: runs is one more
\* than the value loaded, and each bias is one step from the value loaded.
C16_LostUpdate ==
    BothLoadedFirst =>
        /\ \E t \in Threads : file = OneUpdate(t)
        /\ load_prefs(file).runs = learner[1].prefs.runs + 1
        /\ \A m \in ModeSet :
               \E t \in Threads :
                   load_prefs(file).mode_bias[m] =
                       Clip(Nudge(learner[t].prefs.mode_bias, m,
                                  UsedModes(learner[t].segs), learner[t].lr))

\* the interleaving is reached from a file with runs 1, and the file differs
\* from what the two calls leave one after the other
C16_Witness ==
    /\ BothLoadedFirst
    /\ learner[1].prefs.runs = 1
    /\ load_prefs(file).runs = 2
    /\ \A t \in Threads :
           load_prefs(file) #
               LearnUpdate(learner[3 - t].ret, learner[t].segs, learner[t].lr)

----------------------------------------------------------------------------
\* C17

\* the stored runs counter, as load_prefs reads it
StoredRuns(f) == Get(load_prefs(f), "runs", 0)

\* C17: in a sequential run every completed learn_from_choice call raises the
\* stored runs by exactly one, so k calls from runs = r leave r + k, and the
\* preferences it returns are what load_prefs returns right after it;
\* score_route, choose_best_route and paths_to_segs leave runs as it was.
C17_RunsCountsLearns ==
    [][/\ call'.op = "learn" =>
              /\ StoredRuns(file') = StoredRuns(file) + 1
              /\ call'.ret = load_prefs(file')
       /\ call'.op \in {"score", "choose", "segs"} =>
              StoredRuns(file') = StoredRuns(file)
      ]_vars

\* a second learn_from_choice call has returned, on a file that started
\* without a runs entry (it keeps the default crowd_weight), with a
\* score_route call before it
C17_Witness ==
    /\ call.op = "learn"
    /\ call.old.runs = 1
    /\ call.old.crowd_weight = 2 * Centi
    /\ StoredRuns(file) = 2
    /\ call.ret = load_prefs(file)
    /\ lastScore.valid

----------------------------------------------------------------------------
\* C18

\* the score of segs under the stored preferences of file f, no override
StoredScore(segs, f) == score_route(segs, NonePrefs, f)

\* r uses none of the modes of segs
SharesNoMode(r, segs) == UsedModes(r) \cap UsedModes(segs) = {}

\* C18: when the stored biases lie in [-10, 10] and lr > 0, a
\* learn_from_choice call on a non-empty chosen route leaves that route's
\* score under the stored preferences no higher than before the call, and
\* the score of every route that shares no mode with it no lower.
C18_LearningFavoursChoice ==
    [][(/\ call'.op = "learn"
        /\ call'.segs # <<>>
        /\ call'.lr > 0
        /\ BiasInRange(load_prefs(file).mode_bias)) =>
           /\ StoredScore(call'.segs, file') <= StoredScore(call'.segs, file)
           /\ \A r \in ProbeRoutes :
                  SharesNoMode(r, call'.segs) =>
                      StoredScore(r, file') >= StoredScore(r, file)
      ]_vars

\* a learn_from_choice call from in-range biases has lowered the chosen
\* route's score and raised the score of a route that shares no mode with it
C18_Witness ==
    /\ call.op = "learn"
    /\ BiasInRange(call.old.mode_bias)
    /\ StoredScore(call.segs, file)
           < StoredScore(call.segs, save_prefs(call.old))
    /\ \E r \in ProbeRoutes :
           /\ SharesNoMode(r, call.segs)
           /\ StoredScore(r, file) > StoredScore(r, save_prefs(call.old))

====
